---- MODULE Spec2Model ----
(***************************************************************************)
(* A model of main.py, the Flask backend of the resume screening           *)
(* application: the keyword-overlap scorer (calculate_score), the /submit  *)
(* and /chat handlers with their collaborators (text extractor, Google     *)
(* Sheets handle, SMTP notifier, Gemini client), and the cached sheet      *)
(* handle under the threaded server.                                       *)
(*                                                                         *)
(* Python strings are modelled as sequences of one-character strings, so   *)
(* that lower(), strip(), rsplit() and re.findall() are computed character *)
(* by character as the interpreter computes them.                          *)
(***************************************************************************)
EXTENDS Integers, Sequences, FiniteSets, TLC

-----------------------------------------------------------------------------
(* Characters and the str / re primitives the program uses.                *)

Range(s) == {s[i] : i \in DOMAIN s}

\* str.strip() with no argument removes these (ASCII) whitespace characters.
Whitespace == {" ", "\t", "\n", "\r", "\f"}

\* The characters the regular expression class \w matches (ASCII part).
WordChars ==
    {"A", "B", "C", "D", "E", "F", "G", "H", "I", "J", "K", "L", "M", "N", "O", "P", "Q", "R",
    "S", "T", "U", "V", "W", "X", "Y", "Z", "a", "b", "c", "d", "e", "f", "g", "h", "i", "j",
    "k", "l", "m", "n", "o", "p", "q", "r", "s", "t", "u", "v", "w", "x", "y", "z", "0", "1",
    "2", "3", "4", "5", "6", "7", "8", "9", "_"}

\* The lower-case form of each upper-case letter.
LowerOf ==
    ("A" :> "a") @@ ("B" :> "b") @@ ("C" :> "c") @@ ("D" :> "d") @@ ("E" :> "e") @@ ("F" :>
    "f") @@ ("G" :> "g") @@ ("H" :> "h") @@ ("I" :> "i") @@ ("J" :> "j") @@ ("K" :> "k") @@
    ("L" :> "l") @@ ("M" :> "m") @@ ("N" :> "n") @@ ("O" :> "o") @@ ("P" :> "p") @@ ("Q" :>
    "q") @@ ("R" :> "r") @@ ("S" :> "s") @@ ("T" :> "t") @@ ("U" :> "u") @@ ("V" :> "v") @@
    ("W" :> "w") @@ ("X" :> "x") @@ ("Y" :> "y") @@ ("Z" :> "z")

str_identity(s) == s

\* str.lower()
str_lower(s) ==
    LET n == Len(s)
        low == [i \in 1..n |-> IF s[i] \in DOMAIN LowerOf THEN LowerOf[s[i]] ELSE s[i]]
    IN  SubSeq(low, 1, n)

SetMin(S) == CHOOSE x \in S : \A y \in S : x <= y
SetMax(S) == CHOOSE x \in S : \A y \in S : x >= y

\* str.strip()
str_strip(s) ==
    LET keep == {i \in 1..Len(s) : s[i] \notin Whitespace}
    IN  IF keep = {} THEN <<>> ELSE SubSeq(s, SetMin(keep), SetMax(keep))

\* re.findall(r"\b\w+\b", s): the maximal runs of word characters of s, in
\* order of occurrence, as a list (duplicates kept).  next_words scans s (of
\* length n) from position from: the next match starts at the first word
\* character at or after from and ends before the next non-word character.
RECURSIVE next_words(_, _, _, _)
next_words(s, n, from, acc) ==
    IF \A i \in from..n : s[i] \notin WordChars
    THEN acc
    ELSE LET start == CHOOSE i \in from..n :
                          /\ s[i] \in WordChars
                          /\ \A j \in from..(i - 1) : s[j] \notin WordChars
             stop == CHOOSE j \in start..n :
                          /\ \A k \in start..j : s[k] \in WordChars
                          /\ (j = n \/ s[j + 1] \notin WordChars)
         IN  next_words(s, n, stop + 1, Append(acc, SubSeq(s, start, stop)))

re_findall_words(s) == next_words(s, Len(s), 1, <<>>)

-----------------------------------------------------------------------------
(* Configuration (module-level constants of main.py).                      *)

JOB_DESCRIPTION ==
    <<"L", "o", "o", "k", "i", "n", "g", " ", "f", "o", "r", " ", "c", "a", "n", "d", "i", "d",
    "a", "t", "e", "s", " ", "w", "i", "t", "h", " ", "s", "t", "r", "o", "n", "g", " ", "P",
    "y", "t", "h", "o", "n", ",", " ", "F", "l", "a", "s", "k", ",", " ", "H", "T", "M", "L",
    "/", "C", "S", "S", ",", " ", "J", "a", "v", "a", "S", "c", "r", "i", "p", "t", " ", "s",
    "k", "i", "l", "l", "s", ",", " ", "e", "x", "p", "e", "r", "i", "e", "n", "c", "e", " ",
    "i", "n", " ", "A", "I", "/", "M", "L", " ", "p", "r", "o", "j", "e", "c", "t", "s", ",",
    " ", "a", "t", "t", "e", "n", "t", "i", "o", "n", " ", "t", "o", " ", "d", "e", "t", "a",
    "i", "l", ",", " ", "a", "n", "d", " ", "e", "x", "c", "e", "l", "l", "e", "n", "t", " ",
    "c", "o", "m", "m", "u", "n", "i", "c", "a", "t", "i", "o", "n", ".">>

\* decision = "Accepted" if score >= 85 else "Rejected"
AcceptThreshold == 85

Decision_threshold60(score) == IF score >= 60 THEN "Accepted" ELSE "Rejected"

Decision(score) == IF score >= AcceptThreshold THEN "Accepted" ELSE "Rejected"

-----------------------------------------------------------------------------
(* calculate_score                                                         *)

Min2(a, b) == IF a <= b THEN a ELSE b
Max2(a, b) == IF a >= b THEN a ELSE b

\* keywords = re.findall(r"\b\w+\b", JOB_DESCRIPTION.lower())
keywords == re_findall_words(str_lower(JOB_DESCRIPTION))

\* unique_keywords = set(keywords)
unique_keywords == Range(keywords)

\* resume_words = set(re.findall(r"\b\w+\b", resume_text.lower()))
resume_words(resume_text) == Range(re_findall_words(str_lower(resume_text)))

\* The keywords counted by  sum(1 for k in unique_keywords if k in resume_words).
matched_keywords(resume_text) ==
    LET words == resume_words(resume_text)
    IN  {k \in unique_keywords : k \in words}

int_percent_rounded(matches, den) == (matches * 100 + den \div 2) \div den

\* int(matches / den * 100) in Python: a true (float) division, a float
\* product, and truncation toward zero.  Both operands are non-negative and
\* den >= 1.  The float result differs from the exact quotient by a relative
\* error below 2^-51, so truncation can only differ from the exact one when
\* 100 * matches / den is an integer; with den = 22 (the keyword count of
\* JOB_DESCRIPTION) that happens for matches in {0, 11, 22}, where 0/22,
\* 11/22 = 0.5 and 22/22 = 1.0 are exact in binary.  Hence exact arithmetic.
int_percent(matches, den) == (matches * 100) \div den

calculate_score_multiset(resume_text) ==
    IF str_strip(resume_text) = <<>>
    THEN 0
    ELSE LET words == re_findall_words(str_lower(resume_text))
             matches == Cardinality({i \in DOMAIN words : words[i] \in unique_keywords})
         IN  Min2(100, int_percent(matches, Max2(1, Len(keywords))))

calculate_score(resume_text) ==
    IF str_strip(resume_text) = <<>>
    THEN 0
    ELSE LET matches == Cardinality(matched_keywords(resume_text))
         IN  Min2(100, int_percent(matches, Max2(1, Cardinality(unique_keywords))))

-----------------------------------------------------------------------------
(* allowed_file and extract_text_from_resume                               *)

ExtPdf == <<"p", "d", "f">>
ExtDoc == <<"d", "o", "c">>
ExtDocx == <<"d", "o", "c", "x">>
ExtTxt == <<"t", "x", "t">>

ALLOWED_EXTENSIONS == {ExtPdf, ExtDoc, ExtDocx, ExtTxt}

\* The positions of "." in s.
dots(s) == {i \in 1..Len(s) : s[i] = "."}

\* s.rsplit(".", 1)[-1]: what follows the last ".", all of s if it has none.
rsplit_last(s) == IF dots(s) = {} THEN s ELSE SubSeq(s, SetMax(dots(s)) + 1, Len(s))

allowed_file_any(filename) == TRUE

\* "." in filename and filename.rsplit(".", 1)[1].lower() in ALLOWED_EXTENSIONS
allowed_file(filename) ==
    /\ dots(filename) # {}
    /\ str_lower(rsplit_last(filename)) \in ALLOWED_EXTENSIONS

\* A page of a PDF from which PyPDF2 extracts no text (extract_text() is None).
NoText == <<"<None>">>

\* text += (page.extract_text() or "") + " "   for each page
RECURSIVE join_pages(_, _, _)
join_pages(pages, i, text) ==
    IF i > Len(pages) THEN text
    ELSE join_pages(pages, i + 1, text \o (IF pages[i] = NoText THEN <<>> ELSE pages[i]) \o <<" ">>)

\* text += para.text + " "   for each paragraph
RECURSIVE join_paragraphs(_, _, _)
join_paragraphs(paras, i, text) ==
    IF i > Len(paras) THEN text
    ELSE join_paragraphs(paras, i + 1, text \o paras[i] \o <<" ">>)

\* An uploaded file as the parsing libraries see it: raises says that
\* opening or parsing it raises; pages is what PyPDF2 extracts page by page,
\* paragraphs what python-docx yields, content what reading it as text
\* yields.  The result is [exc, raised, text]: exc is an exception that
\* leaves the function, raised one that was caught inside it.
extract_text_uncaught(filepath, file) ==
    [exc |-> file.raises, raised |-> file.raises, text |-> <<>>]

extract_text_from_resume(filepath, file) ==
    LET ext == rsplit_last(str_lower(filepath))
    IN  IF file.raises
        THEN [exc |-> FALSE, raised |-> TRUE, text |-> <<>>]
        ELSE [exc |-> FALSE, raised |-> FALSE,
              text |-> IF ext = ExtPdf THEN join_pages(file.pages, 1, <<>>)
                       ELSE IF ext \in {ExtDoc, ExtDocx}
                            THEN join_paragraphs(file.paragraphs, 1, <<>>)
                            ELSE file.content]

-----------------------------------------------------------------------------
(* sheet_handle and the Sheets block of submit                             *)

\* _cached_sheet = None
NoSheet == 0

\* The worksheet handle a (sequential) construction yields.
TheSheet == 1

\* The first call of the Sheets block that raises: none, build
\* (build_gsheet_client: no credentials file), open (open_by_key, sheet1 or
\* row_values), insert (insert_row) or append (append_row).  Whatever raises
\* first ends the block, so one value covers every combination of failures.
SheetFaults == {"none", "build", "open", "insert", "append"}

\* sheet_handle() run to completion.  headers and rows are the header rows
\* and data rows the remote sheet holds; row 1 is empty (not headers) when
\* it holds neither.
sheet_handle(cached, headers, rows, fault) ==
    IF cached # NoSheet
    THEN [exc |-> FALSE, ws |-> cached, cached |-> cached, headers |-> headers,
          built |-> FALSE, inserted |-> FALSE]
    ELSE IF fault = "build"
    THEN [exc |-> TRUE, ws |-> NoSheet, cached |-> NoSheet, headers |-> headers,
          built |-> FALSE, inserted |-> FALSE]
    ELSE IF fault = "open"
    THEN [exc |-> TRUE, ws |-> NoSheet, cached |-> NoSheet, headers |-> headers,
          built |-> TRUE, inserted |-> FALSE]
    ELSE IF headers = 0 /\ rows = 0
    THEN IF fault = "insert"
         THEN [exc |-> TRUE, ws |-> NoSheet, cached |-> NoSheet, headers |-> headers,
               built |-> TRUE, inserted |-> FALSE]
         ELSE [exc |-> FALSE, ws |-> TheSheet, cached |-> TheSheet, headers |-> headers + 1,
               built |-> TRUE, inserted |-> TRUE]
    ELSE [exc |-> FALSE, ws |-> TheSheet, cached |-> TheSheet, headers |-> headers,
          built |-> TRUE, inserted |-> FALSE]

\* try: ws = sheet_handle(); ws.append_row([...])
\* except Exception as e: warnings.append(f"Sheets logging failed: {e}")
\* The result says whether an exception leaves the block (exc), the warnings
\* it adds, the row it appended (a list of none or one) and the new state
\* of the cache and of the remote sheet.
sheets_block_result(exc, warn, h, rows, appended) ==
    [exc |-> exc, warnings |-> warn, cached |-> h.cached, headers |-> h.headers,
     rows |-> rows, built |-> h.built, inserted |-> h.inserted, row |-> appended]

submit_sheets_block_uncaught(cached, headers, rows, fault, row) ==
    LET h == sheet_handle(cached, headers, rows, fault)
    IN  IF h.exc \/ fault = "append"
        THEN sheets_block_result(TRUE, <<>>, h, rows, <<>>)
        ELSE sheets_block_result(FALSE, <<>>, h, rows + 1, <<row>>)

submit_sheets_block(cached, headers, rows, fault, row) ==
    LET h == sheet_handle(cached, headers, rows, fault)
    IN  IF h.exc \/ fault = "append"
        THEN sheets_block_result(FALSE, <<"Sheets logging failed">>, h, rows, <<>>)
        ELSE sheets_block_result(FALSE, <<>>, h, rows + 1, <<row>>)

-----------------------------------------------------------------------------
(* send_email                                                              *)

\* What the SMTP conversation (connect, starttls, login, send_message, quit)
\* does: complete, or raise.
SmtpFaults == {"none", "raises"}

\* send_email(to_email, subject, body_html) -> (ok, message).  configured
\* says that SMTP_EMAIL and SMTP_APP_PASSWORD are both set.  The message is
\* built with msg["From"] = "gamingsxr@gmail.com" and msg["To"] = "", and
\* server.send_message(msg) is called without to_addrs, so the transport
\* takes the recipient from the To header.  sent is the list of messages the
\* transport accepted.
send_email(configured, to_email, subject, body_html, fault) ==
    IF ~(configured /\ to_email # <<>>)
    THEN [ok |-> FALSE, mail_msg |-> "Email not configured - skipped", sent |-> <<>>]
    ELSE LET msg == [From |-> "gamingsxr@gmail.com", To |-> <<>>,
                     Subject |-> subject, Body |-> body_html]
         IN  IF fault = "raises"
             THEN [ok |-> FALSE, mail_msg |-> "failed", sent |-> <<>>]
             ELSE [ok |-> TRUE, mail_msg |-> "sent", sent |-> <<msg>>]

-----------------------------------------------------------------------------
(* call_gemini                                                             *)

\* Python values: a type name and, for a dict, list or str, its content.
PyStr(s) == [t |-> "str", v |-> s]
PyNone == [t |-> "NoneType", v |-> "None"]
PyDict(f) == [t |-> "dict", v |-> f]
PyList(s) == [t |-> "list", v |-> s]
PyRaise(e) == [t |-> "raise", v |-> e]

\* d.get(key, default); only a dict has a get method.
py_get(d, key, default) ==
    IF d.t = "raise" THEN d
    ELSE IF d.t # "dict" THEN PyRaise("AttributeError")
    ELSE IF key \in DOMAIN d.v THEN d.v[key] ELSE default

\* x[0]: the first item of a list, IndexError if it is empty; a dict with
\* string keys has no key 0; None is not subscriptable; the first character
\* of a non-empty str is a str.
py_first(x) ==
    IF x.t = "raise" THEN x
    ELSE IF x.t = "list" THEN IF Len(x.v) = 0 THEN PyRaise("IndexError") ELSE x.v[1]
    ELSE IF x.t = "dict" THEN PyRaise("KeyError")
    ELSE IF x.t = "str" THEN IF x.v = "" THEN PyRaise("IndexError") ELSE PyStr("char")
    ELSE PyRaise("TypeError")

EmptyDict == PyDict(<<>>)

\* data.get("candidates", [{}])[0].get("content", {}).get("parts", [{}])[0]
\*     .get("text", "(No content)")
reply_text(data) ==
    py_get(py_first(py_get(py_get(py_first(py_get(data, "candidates", PyList(<<EmptyDict>>))),
                                  "content", EmptyDict),
                           "parts", PyList(<<EmptyDict>>))),
           "text", PyStr("(No content)"))

\* resp.json(): a body that is not JSON raises.
NotJson == [t |-> "invalid", v |-> "<html>"]
resp_json(body) == IF body.t = "invalid" THEN PyRaise("JSONDecodeError") ELSE body

Candidates(text) ==
    PyDict("candidates" :>
        PyList(<<PyDict("content" :> PyDict("parts" :> PyList(<<PyDict("text" :> text)>>)))>>))

\* Response bodies of the generative-text service.
BodyReply == Candidates(PyStr("Hello"))
BodyEmptyDict == EmptyDict
BodyNoCandidates == PyDict("candidates" :> PyList(<<>>))
BodyJsonList == PyList(<<>>)
BodyNullText == Candidates(PyNone)

\* What one requests.post can do: raise (timeout, connection error) or
\* return a response with a status code and a body.
HttpRaises == [kind |-> "exception", status |-> 0, body |-> NotJson]
HttpResponse(status, body) == [kind |-> "response", status |-> status, body |-> body]

RetryableStatus == {429, 500, 502, 503, 504}

\* One iteration of  for attempt in range(3)  given what requests.post did.
\* The result says whether call_gemini returns (ret) and what (value).
gemini_except(attempt) ==
    IF attempt = 2
    THEN [ret |-> TRUE, value |-> PyStr("(Gemini request failed)")]
    ELSE [ret |-> FALSE, value |-> PyNone]

gemini_attempt(attempt, outcome) ==
    IF outcome.kind = "exception"
    THEN gemini_except(attempt)
    ELSE IF outcome.status >= 400
    THEN IF outcome.status \in RetryableStatus /\ attempt < 2
         THEN [ret |-> FALSE, value |-> PyNone]
         ELSE [ret |-> TRUE, value |-> PyStr("(Gemini error)")]
    ELSE LET text == reply_text(resp_json(outcome.body))
         IN  IF text.t = "raise"
             THEN gemini_except(attempt)
             ELSE [ret |-> TRUE, value |-> text]

\* range(3)
GeminiAttempts == 3

-----------------------------------------------------------------------------
(* State                                                                   *)

VARIABLES
    resume_a, resume_b,     \* two resume texts given to calculate_score
    score_a, score_b,       \* what calculate_score returned for each
    returned,               \* which of the two calls have returned
    smtp_configured,        \* SMTP_EMAIL and SMTP_APP_PASSWORD are both set
    gemini_key,             \* GEMINI_API_KEY is set
    cached_sheet,           \* _cached_sheet
    sheet_headers,          \* header rows the remote sheet holds
    sheet_rows,             \* data rows appended to the remote sheet
    req,                    \* the request being handled
    resp,                   \* its response (status 0: none yet)
    fx,                     \* what handling it has done so far
    gem,                    \* call_gemini's loop: position, attempt, requests made
    th,                     \* per server thread: position in the Sheets block, locals
    clients_built,          \* spreadsheet clients constructed (gspread.authorize)
    cache_writes            \* assignments to _cached_sheet

scoreVars == <<resume_a, resume_b, score_a, score_b, returned>>
configVars == <<smtp_configured, gemini_key>>
sheetVars == <<cached_sheet, sheet_headers, sheet_rows>>
handlerVars == <<req, resp, fx, gem>>
threadVars == <<th, clients_built, cache_writes>>
vars == <<scoreVars, configVars, sheetVars, handlerVars, threadVars>>

NoRequest == [route |-> "none"]
NoResponse == [status |-> 0]
NoFx == [saved |-> FALSE, extract |-> <<>>, scored |-> FALSE, built |-> FALSE,
         inserted |-> FALSE, row |-> <<>>, email_call |-> <<>>, sent |-> <<>>]
GemIdle == [pc |-> "idle", attempt |-> 0, requests |-> 0, last |-> <<>>]

NumThreads == 2
Threads == 1..NumThreads
ThreadIdle == [pc |-> "idle", headers_empty |-> FALSE, ws |-> NoSheet, got |-> NoSheet]

ScoreIdle ==
    /\ resume_a = <<>>
    /\ resume_b = <<>>
    /\ score_a = 0
    /\ score_b = 0
    /\ returned = {}

HandlersIdle ==
    /\ req = NoRequest
    /\ resp = NoResponse
    /\ fx = NoFx
    /\ gem = GemIdle

ThreadsIdle ==
    /\ th = [t \in Threads |-> ThreadIdle]
    /\ clients_built = 0
    /\ cache_writes = 0

\* A fresh process: nothing cached; the remote sheet is empty or already has
\* its header row.
ProcessStart ==
    /\ smtp_configured \in BOOLEAN
    /\ gemini_key \in BOOLEAN
    /\ cached_sheet = NoSheet
    /\ sheet_headers \in {0, 1}
    /\ sheet_rows = 0

-----------------------------------------------------------------------------
(* Inputs of the scorer specification.                                     *)

TextLine1 ==
    <<"L", "o", "o", "k", "i", "n", "g", " ", "f", "o", "r", " ", "c", "a", "n", "d", "i", "d",
    "a", "t", "e", "s", " ", "w", "i", "t", "h", " ", "s", "t", "r", "o", "n", "g", " ", "P",
    "y", "t", "h", "o", "n", ",", " ", "F", "l", "a", "s", "k", ",", " ", "H", "T", "M", "L",
    "/", "C", "S", "S", ",", " ", "J", "a", "v", "a", "S", "c", "r", "i", "p", "t", " ", "s",
    "k", "i", "l", "l", "s", ",", " ">>

TextLine2 ==
    <<"e", "x", "p", "e", "r", "i", "e", "n", "c", "e", " ", "i", "n", " ", "A", "I", "/", "M",
    "L", " ", "p", "r", "o", "j", "e", "c", "t", "s", ",", " ", "a", "t", "t", "e", "n", "t",
    "i", "o", "n", " ", "t", "o", " ", "d", "e", "t", "a", "i", "l", ",", " ", "a", "n", "d",
    " ", "e", "x", "c", "e", "l", "l", "e", "n", "t", " ", "c", "o", "m", "m", "u", "n", "i",
    "c", "a", "t", "i", "o", "n", ".">>

TextUpToTo ==
    <<"e", "x", "p", "e", "r", "i", "e", "n", "c", "e", " ", "i", "n", " ", "A", "I", "/", "M",
    "L", " ", "p", "r", "o", "j", "e", "c", "t", "s", ",", " ", "a", "t", "t", "e", "n", "t",
    "i", "o", "n", " ", "t", "o">>

TextDetail ==
    <<" ", "d", "e", "t", "a", "i", "l">>

TextEndToEnd ==
    <<"I", " ", "h", "a", "v", "e", " ", "s", "t", "r", "o", "n", "g", " ", "P", "y", "t", "h",
    "o", "n", " ", "a", "n", "d", " ", "F", "l", "a", "s", "k", " ", "e", "x", "p", "e", "r",
    "i", "e", "n", "c", "e">>

TextBlank ==
    <<" ", "\t", "\n">>

TextOdd ==
    <<"P", "Y", "T", "H", "O", "N", " ", "p", "y", "t", "h", "o", "n", " ", "P", "y", "t", "h",
    "o", "n", "_", "f", "l", "a", "s", "k", " ", "C", "+", "+", " ", "4">>

TextPython ==
    <<"P", "y", "t", "h", "o", "n">>

Pieces == {TextLine1, TextLine2, TextDetail, TextEndToEnd, TextBlank, TextOdd, TextPython}

\* The number of pieces a generated resume text is concatenated from.
MaxPieces == 2

RECURSIVE TextsUpTo(_)
TextsUpTo(n) ==
    IF n = 0 THEN {<<>>}
    ELSE LET S == TextsUpTo(n - 1) IN S \cup {t \o p : t \in S, p \in Pieces}

\* Two resume texts: resume_b is resume_a with one more piece of text put
\* before or after it (or resume_a itself).
InitScore ==
    /\ resume_a \in TextsUpTo(MaxPieces)
    /\ resume_b \in {resume_a} \cup {resume_a \o p : p \in Pieces} \cup {p \o resume_a : p \in Pieces}
    /\ score_a = 0
    /\ score_b = 0
    /\ returned = {}
    /\ smtp_configured = FALSE
    /\ gemini_key = FALSE
    /\ cached_sheet = NoSheet
    /\ sheet_headers = 0
    /\ sheet_rows = 0
    /\ HandlersIdle
    /\ ThreadsIdle

ScoreA ==
    /\ "a" \notin returned
    /\ score_a' = calculate_score(resume_a)
    /\ returned' = returned \cup {"a"}
    /\ UNCHANGED <<resume_a, resume_b, score_b>>
    /\ UNCHANGED <<configVars, sheetVars, handlerVars, threadVars>>

ScoreB ==
    /\ "b" \notin returned
    /\ score_b' = calculate_score(resume_b)
    /\ returned' = returned \cup {"b"}
    /\ UNCHANGED <<resume_a, resume_b, score_a>>
    /\ UNCHANGED <<configVars, sheetVars, handlerVars, threadVars>>

NextScore == ScoreA \/ ScoreB

SpecScore == InitScore /\ [][NextScore]_vars

-----------------------------------------------------------------------------
(* The /submit handler                                                     *)

FileCvPdf == <<"c", "v", ".", "p", "d", "f">>
FileCvDocx == <<"c", "v", ".", "D", "O", "C", "X">>
FileNotesTxt == <<"n", "o", "t", "e", "s", ".", "t", "x", "t">>
FileCvExe == <<"c", "v", ".", "e", "x", "e">>
FileNoDot == <<"r", "e", "s", "u", "m", "e">>
FileOldDoc == <<"o", "l", "d", ".", "v", "2", ".", "d", "o", "c">>
NameAnn == <<"A", "n", "n">>
EmailAnn == <<"a", "n", "n", "@", "x", ".", "i", "o">>
EmailBob == <<"b", "o", "b", "@", "y", ".", "i", "o">>
Phone555 == <<"5", "5", "5">>
MsgHi == <<"h", "i">>
UploadPath == <<"u", "p", "l", "o", "a", "d", "s", "/">>
UuidHex == <<"0", "f", "3", "a">>

Upload(filename, raises, pages, paragraphs, content) ==
    [filename |-> filename, raises |-> raises, pages |-> pages,
     paragraphs |-> paragraphs, content |-> content]

Pdf(pages) == Upload(FileCvPdf, FALSE, pages, <<>>, <<>>)
Docx(paragraphs) == Upload(FileCvDocx, FALSE, <<>>, paragraphs, <<>>)
Txt(content) == Upload(FileNotesTxt, FALSE, <<>>, <<>>, content)
Corrupt(filename) == Upload(filename, TRUE, <<>>, <<>>, <<>>)

\* Uploaded files with an allowed extension.
ResumeFiles ==
    {Pdf(<<>>), Pdf(<<NoText>>), Pdf(<<TextEndToEnd>>), Pdf(<<TextLine1, TextUpToTo>>),
     Pdf(<<TextLine1, NoText, TextUpToTo \o TextDetail>>), Pdf(<<TextLine1, TextLine2>>),
     Corrupt(FileCvPdf),
     Docx(<<>>), Docx(<<TextBlank>>), Docx(<<TextEndToEnd>>), Docx(<<TextLine1, TextLine2>>),
     Corrupt(FileCvDocx),
     Txt(<<>>), Txt(TextBlank), Txt(TextEndToEnd), Txt(JOB_DESCRIPTION), Txt(TextOdd),
     Corrupt(FileNotesTxt)}

\* Form fields; an absent field reads as "" (request.form.get(..., "")).
Names == {<<>>, <<" ", "\t">>, <<" ">> \o NameAnn}
Emails == {<<>>, <<" ">>, EmailAnn, EmailBob \o <<" ">>}
Phones == {<<>>, Phone555}
FileNames == {<<>>, FileNoDot, FileCvExe, FileCvPdf, FileOldDoc, <<"c", "v", ".">>}

SubmitRequest(name, email, phone, has_resume, file, sheet_fault, smtp_fault) ==
    [route |-> "submit", name |-> name, email |-> email, phone |-> phone,
     has_resume |-> has_resume, file |-> file,
     sheet_fault |-> sheet_fault, smtp_fault |-> smtp_fault]

\* Every combination of form fields and file names with a readable file and
\* working collaborators, and every resume file with every collaborator
\* failure for two applicants.
SubmitRequests ==
    {SubmitRequest(n, e, p, hr, Upload(f, FALSE, <<TextEndToEnd>>, <<TextEndToEnd>>, TextEndToEnd),
                   "none", "none") :
        n \in Names, e \in Emails, p \in Phones, hr \in BOOLEAN, f \in FileNames}
    \cup
    {SubmitRequest(<<" ">> \o NameAnn, e, Phone555, TRUE, f, sf, mf) :
        e \in {EmailAnn, EmailBob \o <<" ">>}, f \in ResumeFiles,
        sf \in SheetFaults, mf \in SmtpFaults}

BadRequest(error) == [status |-> 400, ok |-> FALSE, error |-> error]

\* except Exception as e: return jsonify({"ok": False, "error": str(e), ...}), 500
ServerError == [status |-> 500, ok |-> FALSE, error |-> "exception"]

HandlerResult(response, effects, cached, headers, rows) ==
    [resp |-> response, fx |-> effects, cached |-> cached, headers |-> headers, rows |-> rows]

\* submit() from file.save on, for a request that passed validation.
submit_accepted(r, name, email, phone, configured, cached, headers, rows) ==
    LET safe_name == r.file.filename
        unique_name == UuidHex \o <<"_">> \o safe_name
        filepath == UploadPath \o unique_name
        ex == extract_text_from_resume(filepath, r.file)
        fx1 == [NoFx EXCEPT !.saved = TRUE,
                            !.extract = <<[raised |-> ex.raised, text |-> ex.text]>>]
    IN  IF ex.exc
        THEN HandlerResult(ServerError, fx1, cached, headers, rows)
        ELSE
        LET score == calculate_score(ex.text)
            decision == Decision(score)
            row == [name |-> name, email |-> email, phone |-> phone, file |-> unique_name,
                    score |-> score, decision |-> decision]
            sb == submit_sheets_block(cached, headers, rows, r.sheet_fault, row)
            fx2 == [fx1 EXCEPT !.scored = TRUE, !.built = sb.built,
                               !.inserted = sb.inserted, !.row = sb.row]
        IN  IF sb.exc
            THEN HandlerResult(ServerError, fx2, sb.cached, sb.headers, sb.rows)
            ELSE
            LET subject == IF decision = "Accepted" THEN "Application Accepted"
                           ELSE "Application Status"
                body_html == [name |-> name, score |-> score,
                              text |-> IF decision = "Accepted"
                                       THEN "Proceed to next step"
                                       ELSE "not selected for the next round"]
                mail == send_email(configured, email, subject, body_html, r.smtp_fault)
                warnings == sb.warnings
                            \o (IF ~mail.ok THEN <<"Email: " \o mail.mail_msg>> ELSE <<>>)
                fx3 == [fx2 EXCEPT !.email_call = <<[to_email |-> email, subject |-> subject,
                                                     body_html |-> body_html]>>,
                                   !.sent = mail.sent]
            IN  HandlerResult([status |-> 200, ok |-> TRUE, score |-> score,
                               decision |-> decision, warnings |-> warnings,
                               file |-> unique_name],
                              fx3, sb.cached, sb.headers, sb.rows)

\* submit(): validation, then the rest.
submit(r, configured, cached, headers, rows) ==
    LET name == str_strip(r.name)
        email == str_strip(r.email)
        phone == str_strip(r.phone)
        Refuse(error) == HandlerResult(BadRequest(error), NoFx, cached, headers, rows)
    IN  IF name = <<>> \/ email = <<>> \/ phone = <<>>
        THEN Refuse("Name, email and phone are required")
        ELSE IF ~r.has_resume
        THEN Refuse("Resume file required")
        ELSE IF r.file.filename = <<>>
        THEN Refuse("No file selected")
        ELSE IF ~allowed_file(r.file.filename)
        THEN Refuse("Unsupported file type")
        ELSE submit_accepted(r, name, email, phone, configured, cached, headers, rows)

\* The cap on the data rows of the remote sheet.
MaxRows == 2

Submit(r) ==
    /\ req.route = "none"
    /\ sheet_rows < MaxRows
    /\ LET out == submit(r, smtp_configured, cached_sheet, sheet_headers, sheet_rows)
       IN  /\ req' = r
           /\ resp' = out.resp
           /\ fx' = out.fx
           /\ cached_sheet' = out.cached
           /\ sheet_headers' = out.headers
           /\ sheet_rows' = out.rows
    /\ UNCHANGED <<gem, scoreVars, configVars, threadVars>>

-----------------------------------------------------------------------------
(* The /chat handler                                                       *)

\* payload.get("message") or "": an absent or null message reads as "".
Messages == {<<>>, <<" ", "\n">>, <<" ">> \o MsgHi}

GeminiOutcomes ==
    <<HttpRaises,
      HttpResponse(429, NotJson), HttpResponse(500, NotJson), HttpResponse(502, NotJson),
      HttpResponse(503, NotJson), HttpResponse(504, NotJson),
      HttpResponse(400, NotJson), HttpResponse(404, NotJson), HttpResponse(501, NotJson),
      HttpResponse(200, BodyReply), HttpResponse(200, BodyEmptyDict),
      HttpResponse(200, BodyNoCandidates), HttpResponse(200, BodyJsonList),
      HttpResponse(200, BodyNullText), HttpResponse(200, NotJson)>>

ChatRequest(message) == [route |-> "chat", message |-> message]

ChatReply(status, ok, reply) == [status |-> status, ok |-> ok, reply |-> reply]

\* chat() up to the call of call_gemini, and call_gemini up to its loop.
Chat(message) ==
    /\ req.route = "none"
    /\ req' = ChatRequest(message)
    /\ LET user_msg == str_strip(message)
       IN  IF user_msg = <<>>
           THEN /\ resp' = ChatReply(400, FALSE, PyStr("Please enter a message."))
                /\ gem' = gem
           ELSE IF ~gemini_key
           THEN /\ resp' = ChatReply(200, TRUE, PyStr("(Gemini API key missing)"))
                /\ gem' = gem
           ELSE /\ resp' = resp
                /\ gem' = [gem EXCEPT !.pc = "loop"]
    /\ UNCHANGED <<fx, scoreVars, configVars, sheetVars, threadVars>>

\* One iteration of call_gemini's loop: a requests.post and what follows it.
\* When call_gemini returns, chat() answers 200 with its value.
GeminiAttempt(outcome) ==
    /\ gem.pc = "loop"
    /\ LET step == gemini_attempt(gem.attempt, outcome)
           now == [gem EXCEPT !.requests = gem.requests + 1, !.last = <<outcome>>]
       IN  IF step.ret
           THEN /\ gem' = [now EXCEPT !.pc = "returned"]
                /\ resp' = ChatReply(200, TRUE, step.value)
           ELSE IF gem.attempt + 1 < GeminiAttempts
           THEN /\ gem' = [now EXCEPT !.attempt = gem.attempt + 1]
                /\ resp' = resp
           ELSE /\ gem' = [now EXCEPT !.pc = "returned"]
                /\ resp' = ChatReply(200, TRUE, PyStr("(Gemini unreachable)"))
    /\ UNCHANGED <<req, fx, scoreVars, configVars, sheetVars, threadVars>>

\* The response is sent and the handler's locals are gone.
Respond ==
    /\ resp.status # 0
    /\ req' = NoRequest
    /\ resp' = NoResponse
    /\ fx' = NoFx
    /\ gem' = GemIdle
    /\ UNCHANGED <<scoreVars, configVars, sheetVars, threadVars>>

Init ==
    /\ ProcessStart
    /\ HandlersIdle
    /\ ScoreIdle
    /\ ThreadsIdle

Next ==
    \/ \E r \in SubmitRequests : Submit(r)
    \/ \E m \in Messages : Chat(m)
    \/ \E i \in DOMAIN GeminiOutcomes : GeminiAttempt(GeminiOutcomes[i])
    \/ Respond

Spec == Init /\ [][Next]_vars

-----------------------------------------------------------------------------
(* The Sheets block of submit under the threaded server                    *)
(* (app.run(..., threaded=True)): each request runs in a thread of its     *)
(* own, and a thread can be switched out between any two statements and    *)
(* during every network call.                                              *)

\* The cap on the spreadsheet clients constructed.
MaxClients == 3

\* A /submit request reaches  ws = sheet_handle().
SheetsBegin(t) ==
    /\ th[t].pc = "idle"
    /\ sheet_rows < MaxRows
    /\ th' = [th EXCEPT ![t] = [ThreadIdle EXCEPT !.pc = "check"]]
    /\ UNCHANGED <<clients_built, cache_writes, sheetVars>>
    /\ UNCHANGED <<scoreVars, configVars, handlerVars>>

\* if _cached_sheet is None:
SheetsCheck(t) ==
    /\ th[t].pc = "check"
    /\ th' = [th EXCEPT ![t].pc = IF cached_sheet = NoSheet THEN "build" ELSE "return"]
    /\ UNCHANGED <<clients_built, cache_writes, sheetVars>>
    /\ UNCHANGED <<scoreVars, configVars, handlerVars>>

\* client = build_gsheet_client(); it raises when the credentials file is
\* missing, and the except clause of submit ends the block.
SheetsBuild(t, ok) ==
    /\ th[t].pc = "build"
    /\ clients_built < MaxClients
    /\ IF ok
       THEN /\ clients_built' = clients_built + 1
            /\ th' = [th EXCEPT ![t].pc = "open", ![t].ws = clients_built + 1]
       ELSE /\ clients_built' = clients_built
            /\ th' = [th EXCEPT ![t].pc = "idle"]
    /\ UNCHANGED <<cache_writes, sheetVars>>
    /\ UNCHANGED <<scoreVars, configVars, handlerVars>>

\* sh = client.open_by_key(SHEET_ID); ws = sh.sheet1; headers = ws.row_values(1)
SheetsOpen(t, ok) ==
    /\ th[t].pc = "open"
    /\ IF ok
       THEN LET empty == sheet_headers = 0 /\ sheet_rows = 0
            IN  th' = [th EXCEPT ![t].headers_empty = empty,
                                 ![t].pc = IF empty THEN "insert" ELSE "assign"]
       ELSE th' = [th EXCEPT ![t].pc = "idle"]
    /\ UNCHANGED <<clients_built, cache_writes, sheetVars>>
    /\ UNCHANGED <<scoreVars, configVars, handlerVars>>

\* if not headers: ws.insert_row(desired, 1)
SheetsInsert(t, ok) ==
    /\ th[t].pc = "insert"
    /\ IF ok
       THEN /\ sheet_headers' = sheet_headers + 1
            /\ th' = [th EXCEPT ![t].pc = "assign"]
       ELSE /\ sheet_headers' = sheet_headers
            /\ th' = [th EXCEPT ![t].pc = "idle"]
    /\ UNCHANGED <<clients_built, cache_writes, cached_sheet, sheet_rows>>
    /\ UNCHANGED <<scoreVars, configVars, handlerVars>>

\* _cached_sheet = ws
SheetsAssign(t) ==
    /\ th[t].pc = "assign"
    /\ cached_sheet' = th[t].ws
    /\ cache_writes' = cache_writes + 1
    /\ th' = [th EXCEPT ![t].pc = "return"]
    /\ UNCHANGED <<clients_built, sheet_headers, sheet_rows>>
    /\ UNCHANGED <<scoreVars, configVars, handlerVars>>

\* return _cached_sheet
SheetsReturn(t) ==
    /\ th[t].pc = "return"
    /\ th' = [th EXCEPT ![t].got = cached_sheet, ![t].pc = "append"]
    /\ UNCHANGED <<clients_built, cache_writes, sheetVars>>
    /\ UNCHANGED <<scoreVars, configVars, handlerVars>>

\* ws.append_row([...]); when it raises the except clause adds the warning.
SheetsAppend(t, ok) ==
    /\ th[t].pc = "append"
    /\ sheet_rows' = IF ok THEN sheet_rows + 1 ELSE sheet_rows
    /\ th' = [th EXCEPT ![t].pc = "idle"]
    /\ UNCHANGED <<clients_built, cache_writes, cached_sheet, sheet_headers>>
    /\ UNCHANGED <<scoreVars, configVars, handlerVars>>

InitThreads ==
    /\ smtp_configured = FALSE
    /\ gemini_key = FALSE
    /\ cached_sheet = NoSheet
    /\ sheet_headers \in {0, 1}
    /\ sheet_rows = 0
    /\ HandlersIdle
    /\ ScoreIdle
    /\ ThreadsIdle

NextThreads ==
    \E t \in Threads :
        \/ SheetsBegin(t)
        \/ SheetsCheck(t)
        \/ \E ok \in BOOLEAN : SheetsBuild(t, ok)
        \/ \E ok \in BOOLEAN : SheetsOpen(t, ok)
        \/ \E ok \in BOOLEAN : SheetsInsert(t, ok)
        \/ SheetsAssign(t)
        \/ SheetsReturn(t)
        \/ \E ok \in BOOLEAN : SheetsAppend(t, ok)

SpecThreads == InitThreads /\ [][NextThreads]_vars

-----------------------------------------------------------------------------
(* Properties.  The definitions below state what the specification says in *)
(* its own terms; they do not use the operators that model the scorer.     *)

NonBlank(text) == \E i \in 1..Len(text) : text[i] \notin Whitespace

\* The set of maximal runs of alphanumeric/underscore characters of text,
\* lower-cased.
TokenSet(text) ==
    LET low == str_lower(text)
        n == Len(low)
        IsWord(i) == low[i] \in WordChars
        starts == {a \in 1..n : IsWord(a) /\ (a = 1 \/ ~IsWord(a - 1))}
        EndOf(a) == CHOOSE b \in a..n : /\ \A k \in a..b : IsWord(k)
                                        /\ (b = n \/ ~IsWord(b + 1))
    IN  {SubSeq(low, a, EndOf(a)) : a \in starts}

KeywordSet == TokenSet(JOB_DESCRIPTION)

ExpectedScore(text) ==
    LET matches == Cardinality(KeywordSet \cap TokenSet(text))
        den == IF Cardinality(KeywordSet) >= 1 THEN Cardinality(KeywordSet) ELSE 1
        raw == (100 * matches) \div den
    IN  IF raw > 100 THEN 100 ELSE raw

\* C1: for every resume text with a non-whitespace character calculate_score
\* returns min(100, trunc(100 * |K \cap R| / max(1, |K|))), K the keyword set
\* of the job description and R the word set of the resume, and the result is
\* an integer in 0..100.
C1_ScoreFormula ==
    /\ ("a" \in returned /\ NonBlank(resume_a)) =>
           (score_a = ExpectedScore(resume_a) /\ score_a \in 0..100)
    /\ ("b" \in returned /\ NonBlank(resume_b)) =>
           (score_b = ExpectedScore(resume_b) /\ score_b \in 0..100)

C1_Witness ==
    /\ "a" \in returned
    /\ NonBlank(resume_a)
    /\ score_a > 0
    /\ score_a < 100

\* C7: calculate_score is monotone in the resume's word set: for non-blank
\* texts with R(a) a subset of R(b), score(a) <= score(b); and when b adds
\* no keyword (only repeated or non-keyword words), the scores are equal.
C7_Monotone ==
    ({"a", "b"} \subseteq returned /\ NonBlank(resume_a) /\ NonBlank(resume_b)
        /\ TokenSet(resume_a) \subseteq TokenSet(resume_b))
    => /\ score_a <= score_b
       /\ ((TokenSet(resume_b) \ TokenSet(resume_a)) \cap KeywordSet = {}) => score_a = score_b

C7_Witness ==
    /\ {"a", "b"} \subseteq returned
    /\ NonBlank(resume_a)
    /\ TokenSet(resume_a) \subseteq TokenSet(resume_b)
    /\ (TokenSet(resume_b) \ TokenSet(resume_a)) \cap KeywordSet # {}
    /\ score_a < score_b

W_looking == <<"l", "o", "o", "k", "i", "n", "g">>
W_for == <<"f", "o", "r">>
W_candidates == <<"c", "a", "n", "d", "i", "d", "a", "t", "e", "s">>
W_with == <<"w", "i", "t", "h">>
W_strong == <<"s", "t", "r", "o", "n", "g">>
W_python == <<"p", "y", "t", "h", "o", "n">>
W_flask == <<"f", "l", "a", "s", "k">>
W_html == <<"h", "t", "m", "l">>
W_css == <<"c", "s", "s">>
W_javascript == <<"j", "a", "v", "a", "s", "c", "r", "i", "p", "t">>
W_skills == <<"s", "k", "i", "l", "l", "s">>
W_experience == <<"e", "x", "p", "e", "r", "i", "e", "n", "c", "e">>
W_in == <<"i", "n">>
W_ai == <<"a", "i">>
W_ml == <<"m", "l">>
W_projects == <<"p", "r", "o", "j", "e", "c", "t", "s">>
W_attention == <<"a", "t", "t", "e", "n", "t", "i", "o", "n">>
W_to == <<"t", "o">>
W_detail == <<"d", "e", "t", "a", "i", "l">>
W_and == <<"a", "n", "d">>
W_excellent == <<"e", "x", "c", "e", "l", "l", "e", "n", "t">>
W_communication == <<"c", "o", "m", "m", "u", "n", "i", "c", "a", "t", "i", "o", "n">>

JobKeywords ==
    {W_looking, W_for, W_candidates, W_with, W_strong, W_python, W_flask, W_html, W_css,
     W_javascript, W_skills, W_experience, W_in, W_ai, W_ml, W_projects, W_attention, W_to,
     W_detail, W_and, W_excellent, W_communication}

\* C8 (as amended): for the program's job description and the resume text
\* "I have strong Python and Flask experience", the keyword set has 22
\* unique tokens, the matched keywords are exactly {python, flask, strong,
\* experience, and} (5 matches), the score is int(5/22*100) = 22 and the
\* decision at threshold 85 is Rejected.
C8_EndToEnd ==
    (resume_a = TextEndToEnd /\ "a" \in returned) =>
        /\ unique_keywords = JobKeywords
        /\ Cardinality(unique_keywords) = 22
        /\ matched_keywords(resume_a) = {W_python, W_flask, W_strong, W_experience, W_and}
        /\ score_a = (5 * 100) \div 22
        /\ score_a = 22
        /\ Decision(score_a) = "Rejected"

C8_Witness ==
    /\ resume_a = TextEndToEnd
    /\ "a" \in returned
    /\ score_a = 22

\* C8 as stated: about 18 unique keywords ("about": 17 to 19), exactly the
\* four matches {python, flask, strong, experience}, score 22, Rejected.
C8_AsStated ==
    (resume_a = TextEndToEnd /\ "a" \in returned) =>
        /\ Cardinality(unique_keywords) \in 17..19
        /\ matched_keywords(resume_a) = {W_python, W_flask, W_strong, W_experience}
        /\ score_a = 22
        /\ Decision(score_a) = "Rejected"

-----------------------------------------------------------------------------

\* The file name ends with "." and one of pdf, doc, docx, txt, in any case.
HasAllowedExtension(fn) ==
    \E e \in ALLOWED_EXTENSIONS :
        /\ Len(fn) > Len(e)
        /\ fn[Len(fn) - Len(e)] = "."
        /\ str_lower(SubSeq(fn, Len(fn) - Len(e) + 1, Len(fn))) = e

WellFormed(r) ==
    /\ r.route = "submit"
    /\ NonBlank(r.name)
    /\ NonBlank(r.email)
    /\ NonBlank(r.phone)
    /\ r.has_resume
    /\ HasAllowedExtension(r.file.filename)

FailsValidation(r) ==
    \/ r.route = "submit" /\ ~WellFormed(r)
    \/ r.route = "chat" /\ ~NonBlank(r.message)

\* C2: when text extraction fails (parsing the file raises) the extractor
\* returns the empty string, and whenever the extracted text is empty or
\* whitespace-only the submission is not an error: calculate_score returns 0
\* and submit answers 200 with score 0 and decision Rejected.
C2_UnreadableResumeScoresZero ==
    (WellFormed(req) /\ resp.status # 0) =>
        /\ Len(fx.extract) = 1
        /\ req.file.raises => fx.extract[1].text = <<>>
        /\ ~NonBlank(fx.extract[1].text) =>
               (resp.status = 200 /\ resp.score = 0 /\ resp.decision = "Rejected")

C2_Witness ==
    /\ WellFormed(req)
    /\ req.file.raises
    /\ resp.status = 200
    /\ resp.score = 0
    /\ resp.decision = "Rejected"

\* C3: in every successful /submit response the decision is Accepted exactly
\* when the score is >= 85 (84 Rejected, 85 Accepted, 0 Rejected, 100
\* Accepted), and the decision in the spreadsheet row and the one that
\* chooses the email subject are the one in the response.
C3_DecisionThreshold ==
    /\ Decision(84) = "Rejected"
    /\ Decision(85) = "Accepted"
    /\ Decision(0) = "Rejected"
    /\ Decision(100) = "Accepted"
    /\ (req.route = "submit" /\ resp.status = 200) =>
           /\ resp.decision \in {"Accepted", "Rejected"}
           /\ resp.decision = "Accepted" <=> resp.score >= 85
           /\ \A i \in DOMAIN fx.row : /\ fx.row[i].decision = resp.decision
                                       /\ fx.row[i].score = resp.score
           /\ Len(fx.email_call) = 1
           /\ fx.email_call[1].subject = (IF resp.decision = "Accepted"
                                          THEN "Application Accepted"
                                          ELSE "Application Status")

C3_Witness ==
    /\ req.route = "submit"
    /\ resp.status = 200
    /\ resp.decision = "Accepted"
    /\ resp.score = 86
    /\ Len(fx.row) = 1
    /\ Len(fx.sent) = 1

\* C4: a well-formed submission is answered 200 with a score and a decision
\* under every combination of collaborator failures (spreadsheet client
\* construction or append raising, email not configured, SMTP raising), and
\* each failed collaborator adds one warning to the response.
C4_CollaboratorFailuresAreWarnings ==
    (WellFormed(req) /\ resp.status # 0) =>
        LET sheet_failed == fx.row = <<>>
            mail_failed == fx.sent = <<>>
        IN  /\ resp.status = 200
            /\ resp.score \in 0..100
            /\ resp.decision \in {"Accepted", "Rejected"}
            /\ req.sheet_fault = "append" => sheet_failed
            /\ req.sheet_fault = "none" => ~sheet_failed
            /\ mail_failed <=> (~smtp_configured \/ req.smtp_fault = "raises")
            /\ Len(resp.warnings) = (IF sheet_failed THEN 1 ELSE 0) + (IF mail_failed THEN 1 ELSE 0)
            /\ sheet_failed => resp.warnings[1] = "Sheets logging failed"
            /\ (mail_failed /\ ~smtp_configured) =>
                   resp.warnings[Len(resp.warnings)] = "Email: Email not configured - skipped"
            /\ (mail_failed /\ smtp_configured) =>
                   resp.warnings[Len(resp.warnings)] = "Email: failed"

C4_Witness ==
    /\ WellFormed(req)
    /\ req.sheet_fault = "build"
    /\ req.smtp_fault = "raises"
    /\ smtp_configured
    /\ resp.status = 200
    /\ Len(resp.warnings) = 2

\* C5: a request that fails input validation (blank or missing name, email
\* or phone, no resume part, empty filename, extension outside pdf, doc,
\* docx, txt, blank chat message) is answered 400 and has no effect: no file
\* saved, scorer not called, no row appended, no email sent, no request to
\* the generative-text service.
C5_ValidationNoEffect ==
    [][FailsValidation(req') =>
          /\ resp'.status = 400
          /\ fx' = NoFx
          /\ gem' = GemIdle
          /\ UNCHANGED sheetVars]_vars

C5_Witness ==
    /\ req.route = "submit"
    /\ NonBlank(req.name) /\ NonBlank(req.email) /\ NonBlank(req.phone)
    /\ req.has_resume
    /\ req.file.filename = FileCvExe
    /\ resp.status = 400

IsRetryable(outcome) ==
    \/ outcome.kind = "exception"
    \/ outcome.status \in {429, 500, 502, 503, 504}
    \/ outcome.status < 400

\* The part of C6 about the retry loop: at most 3 requests; the loop goes on
\* only after an exception, a retryable status or a body that cannot be
\* read, and only while fewer than 3 requests were made; any other status
\* >= 400 ends the call.
GeminiRetryBounded ==
    /\ gem.requests <= 3
    /\ (gem.pc = "loop" /\ gem.requests > 0) =>
           (gem.requests < 3 /\ IsRetryable(gem.last[1]))
    /\ (Len(gem.last) = 1 /\ ~IsRetryable(gem.last[1])) => gem.pc = "returned"
    /\ gem.pc = "returned" => resp.status = 200

\* C6: for every sequence of outcomes of the generative-text service
\* call_gemini makes at most 3 HTTP requests, terminates and returns a
\* string; a retryable status or an exception is retried only while fewer
\* than 3 attempts were made, any other status >= 400 ends the call.
C6_GeminiReturnsString ==
    /\ GeminiRetryBounded
    /\ gem.pc = "returned" => resp.reply.t = "str"

C6_Witness ==
    /\ gem.pc = "returned"
    /\ gem.requests = 3
    /\ resp.reply.t = "str"

\* C10: with SMTP configured and a transport that succeeds, a well-formed
\* submission sends exactly one email, to the address given in that
\* submission, with the subject chosen by its decision.
C10_MailToApplicant ==
    (WellFormed(req) /\ resp.status = 200 /\ smtp_configured /\ req.smtp_fault = "none") =>
        /\ Len(fx.sent) = 1
        /\ fx.sent[1].To = str_strip(req.email)
        /\ fx.sent[1].Subject = (IF resp.decision = "Accepted"
                                 THEN "Application Accepted" ELSE "Application Status")

\* What C10 has right: one message is handed to the transport, with the
\* subject chosen by the decision.
C10_Witness ==
    /\ WellFormed(req)
    /\ resp.status = 200
    /\ smtp_configured
    /\ req.smtp_fault = "none"
    /\ Len(fx.sent) = 1
    /\ fx.sent[1].To = <<>>

\* C9: under any interleaving of concurrent /submit requests a handle is
\* constructed and cached at most once, the header row is inserted at most
\* once, every sheet_handle call returns the same handle, and as long as no
\* construction succeeded the cache is empty.
C9_SingleConstruction ==
    /\ cache_writes <= 1
    /\ sheet_headers <= 1
    /\ \A t1, t2 \in Threads :
           (th[t1].got # NoSheet /\ th[t2].got # NoSheet) => th[t1].got = th[t2].got
    /\ cache_writes = 0 => cached_sheet = NoSheet

C9_Witness ==
    /\ cache_writes = 2
    /\ sheet_headers = 2

====
